---- MODULE Spec2Model ----
(***************************************************************************)
(* Model of src/src/pdfEmbedRender.ts: replacing embedded PDF references   *)
(* of a rendered document by rasterized images.                            *)
(*                                                                         *)
(* Strings are sequences of tokens.  A token is one character ("%", "#",   *)
(* "2", ...) or one of the words "page" and ".pdf", which stand for their  *)
(* letters: no operation of the program looks inside these words except    *)
(* the tests modelled here (parameter name equality, extension match).     *)
(***************************************************************************)
EXTENDS Integers, Sequences, FiniteSets, TLC

VARIABLES
    tree,         \* the elements doc.querySelectorAll returned, in order
    concurrency,  \* the option of that name
    callState,    \* the promise of replaceEmbeddedPdfsWithImages
    queue,        \* p-limit: the node tasks not yet started, first in front
    activeCount,  \* p-limit: the node tasks started and not settled
    task,         \* per node: the position of its task
    taskKey,      \* per node: the RenderKey its task computed
    cache,        \* the Map of line 201: RenderKey -> index in renders
    renders,      \* the calls of renderPdfPageToTempImage, in order
    dom,          \* per node: what stands in the document at its place
    src,          \* SpecParse: the argument of parsePdfEmbed
    parsed,       \* SpecParse: what parsePdfEmbed did with it
    rq,           \* SpecRender: the arguments of renderPdfPageToTempImage
    rPc,          \* SpecRender: the await the invocation stands at
    rRes,         \* SpecRender: pdf, pdfPage and canvas of the invocation
    rFetched,     \* SpecRender: the page number handed to pdf.getPage
    rOut,         \* SpecRender: the RenderResult returned
    rNode,        \* SpecRender: what stands at the place of the node
    rDisk,        \* SpecRender: the scratch files written
    rmPaths,      \* SpecRemove: the argument of removeTempPaths
    rmState,      \* SpecRemove: per path, the state of its fs.rm
    rmCall,       \* SpecRemove: the promise of removeTempPaths
    rmDisk,       \* SpecRemove: the paths that exist
    srcEl,        \* SpecSource: the element given to getEmbedSource
    srcGot,       \* SpecSource: what lines 207-210 made of it
    nameIn,       \* SpecName: two (path, page) pairs to be named
    nameOut,      \* SpecName: their scratch-file names
    host,         \* SpecResolve: what the two lookups of the host answer
    resolved      \* SpecResolve: what resolvePdfFile returned

callVars == <<tree, concurrency, callState, queue, activeCount, task,
              taskKey, cache, renders, dom>>
parseVars == <<src, parsed>>
renderVars == <<rq, rPc, rRes, rFetched, rOut, rNode, rDisk>>
removeVars == <<rmPaths, rmState, rmCall, rmDisk>>
sourceVars == <<srcEl, srcGot>>
nameVars == <<nameIn, nameOut>>
resolveVars == <<host, resolved>>
sideVars == <<parseVars, renderVars, removeVars, sourceVars, nameVars,
              resolveVars>>
vars == <<callVars, sideVars>>

----------------------------------------------------------------------------
(* Bounds *)

MaxSrcLen == 6
MaxNodes == 3
DocPages == 2
MaxPage == 4
MaxPaths == 3

\* the longest stem of a document path whose scratch-file name is compared
MaxPathLen == 3

----------------------------------------------------------------------------
(* Characters *)

Digits == {"0", "1", "2", "8", "9"}

DigitVal(c) ==
    CASE c = "0" -> 0
      [] c = "1" -> 1
      [] c = "2" -> 2
      [] c = "8" -> 8
      [] c = "9" -> 9

\* the hexadecimal digits among the tokens of the model
HexDigits == Digits

Whitespace == {" "}

\* the character of a code unit below 0x80
CharOfByte(b) ==
    CASE b = 32 -> " "
      [] b = 34 -> "\""
      [] b = 40 -> "("
      [] b = 41 -> ")"
      [] OTHER -> "\\x" \o ToString(b)

----------------------------------------------------------------------------
(* String helpers: String.prototype.trim, split, join *)

RECURSIVE TrimLeft(_)
TrimLeft(s) ==
    IF s # <<>> /\ Head(s) \in Whitespace THEN TrimLeft(Tail(s)) ELSE s

RECURSIVE TrimRight(_)
TrimRight(s) ==
    IF s # <<>> /\ s[Len(s)] \in Whitespace
    THEN TrimRight(SubSeq(s, 1, Len(s) - 1))
    ELSE s

Trim(s) == TrimLeft(TrimRight(s))

\* index of the first occurrence of c in s, 0 when there is none
RECURSIVE IndexFrom(_, _, _)
IndexFrom(s, c, i) ==
    IF i > Len(s) THEN 0
    ELSE IF s[i] = c THEN i
    ELSE IndexFrom(s, c, i + 1)

IndexOf(s, c) == IndexFrom(s, c, 1)

\* s.split(c): the sequence of the pieces of s between the occurrences of c
RECURSIVE Split(_, _)
Split(s, c) ==
    LET i == IndexOf(s, c) IN
    IF i = 0 THEN <<s>>
    ELSE <<SubSeq(s, 1, i - 1)>> \o Split(SubSeq(s, i + 1, Len(s)), c)

\* parts.join(c)
RECURSIVE Join(_, _)
Join(parts, c) ==
    IF parts = <<>> THEN <<>>
    ELSE IF Len(parts) = 1 THEN parts[1]
    ELSE parts[1] \o <<c>> \o Join(Tail(parts), c)

----------------------------------------------------------------------------
(* decodeURIComponent: every "%" must start an escape %XY of two hex      *)
(* digits that (with its successors) is a well-formed UTF-8 sequence; a    *)
(* code unit of 0x80..0xBF cannot start one, and the hex digits of the     *)
(* model spell no code unit above 0x99.  Anything else raises URIError.    *)

IsEscapeAt(s, i) ==
    /\ i + 2 <= Len(s)
    /\ s[i] = "%"
    /\ s[i + 1] \in HexDigits
    /\ s[i + 2] \in HexDigits

ByteAt(s, i) == 16 * DigitVal(s[i + 1]) + DigitVal(s[i + 2])

RECURSIVE DecodeThrowsFrom(_, _)
DecodeThrowsFrom(s, i) ==
    IF i > Len(s) THEN FALSE
    ELSE IF s[i] # "%" THEN DecodeThrowsFrom(s, i + 1)
    ELSE IF ~IsEscapeAt(s, i) THEN TRUE
    ELSE IF ByteAt(s, i) >= 128 THEN TRUE
    ELSE DecodeThrowsFrom(s, i + 3)

DecodeURIComponentThrows(s) == DecodeThrowsFrom(s, 1)

\* the value, for an argument on which decodeURIComponent does not throw
RECURSIVE DecodeFrom(_, _)
DecodeFrom(s, i) ==
    IF i > Len(s) THEN <<>>
    ELSE IF s[i] # "%" THEN <<s[i]>> \o DecodeFrom(s, i + 1)
    ELSE <<CharOfByte(ByteAt(s, i))>> \o DecodeFrom(s, i + 3)

DecodeURIComponent(s) == DecodeFrom(s, 1)

----------------------------------------------------------------------------
(* URLSearchParams (application/x-www-form-urlencoded parsing): split on   *)
(* "&", each piece on its first "=", "+" becomes a space, and escapes are  *)
(* decoded leniently: a "%" that starts no escape stays as it is.          *)

RECURSIVE FormDecodeFrom(_, _)
FormDecodeFrom(s, i) ==
    IF i > Len(s) THEN <<>>
    ELSE IF s[i] = "+" THEN <<" ">> \o FormDecodeFrom(s, i + 1)
    ELSE IF IsEscapeAt(s, i) /\ ByteAt(s, i) < 128
         THEN <<CharOfByte(ByteAt(s, i))>> \o FormDecodeFrom(s, i + 3)
    ELSE <<s[i]>> \o FormDecodeFrom(s, i + 1)

FormDecode(s) == FormDecodeFrom(s, 1)

NoValue == <<"\\null">>

ParamOf(piece) ==
    LET i == IndexOf(piece, "=") IN
    IF i = 0 THEN [name |-> FormDecode(piece), value |-> <<>>]
    ELSE [name  |-> FormDecode(SubSeq(piece, 1, i - 1)),
          value |-> FormDecode(SubSeq(piece, i + 1, Len(piece)))]

\* new URLSearchParams(query): the list of (name, value) pairs
RECURSIVE ParamsOfPieces(_)
ParamsOfPieces(pieces) ==
    IF pieces = <<>> THEN <<>>
    ELSE IF Head(pieces) = <<>> THEN ParamsOfPieces(Tail(pieces))
    ELSE <<ParamOf(Head(pieces))>> \o ParamsOfPieces(Tail(pieces))

URLSearchParams(query) ==
    ParamsOfPieces(Split(IF query # <<>> /\ Head(query) = "?"
                         THEN Tail(query) ELSE query, "&"))

\* params.get(name): the value of the first pair of that name, or null
RECURSIVE ParamsGet(_, _)
ParamsGet(params, name) ==
    IF params = <<>> THEN NoValue
    ELSE IF Head(params).name = name THEN Head(params).value
    ELSE ParamsGet(Tail(params), name)

----------------------------------------------------------------------------
(* Number(string): StringToNumber on the decimal literals the tokens can   *)
(* spell.  A number is kept as sign, integer part and whether a non-zero   *)
(* fraction follows, which is all that "< 1" and Math.floor look at.       *)

NaN == [nan |-> TRUE, neg |-> FALSE, ip |-> 0, frac |-> FALSE]

RECURSIVE DigitsValue(_)
DigitsValue(s) ==
    IF s = <<>> THEN 0
    ELSE 10 * DigitsValue(SubSeq(s, 1, Len(s) - 1)) + DigitVal(s[Len(s)])

AllDigits(s) == \A i \in 1..Len(s) : s[i] \in Digits

HasNonZero(s) == \E i \in 1..Len(s) : s[i] # "0"

\* an unsigned decimal literal: digits, digits "." digits?, "." digits
UnsignedNumber(s, neg) ==
    LET dot == IndexOf(s, ".")
        ipart == IF dot = 0 THEN s ELSE SubSeq(s, 1, dot - 1)
        fpart == IF dot = 0 THEN <<>> ELSE SubSeq(s, dot + 1, Len(s))
    IN  IF /\ AllDigits(ipart)
           /\ AllDigits(fpart)
           /\ Len(ipart) + Len(fpart) > 0
        THEN [nan |-> FALSE, neg |-> neg,
              ip |-> DigitsValue(ipart), frac |-> HasNonZero(fpart)]
        ELSE NaN

ToNumber(str) ==
    LET s == Trim(str) IN
    IF s = <<>> THEN [nan |-> FALSE, neg |-> FALSE, ip |-> 0, frac |-> FALSE]
    ELSE IF Head(s) = "-" THEN UnsignedNumber(Tail(s), TRUE)
    ELSE IF Head(s) = "+" THEN UnsignedNumber(Tail(s), FALSE)
    ELSE UnsignedNumber(s, FALSE)

\* the test written as page < 0
LessThanOne_Negative(n) == n.neg

\* page < 1, for a finite page
LessThanOne(n) == n.neg \/ n.ip = 0

----------------------------------------------------------------------------
(* The reference parser *)

parsePageFromFragment(fragment) ==
    LET query == IF fragment # <<>> /\ Head(fragment) = "#"
                 THEN Tail(fragment) ELSE fragment
        params == URLSearchParams(query)
        got == ParamsGet(params, <<"page">>)
        page == ToNumber(IF got = NoValue THEN <<"1">> ELSE got)
    IN  IF page.nan \/ LessThanOne(page) THEN 1 ELSE page.ip

parsePdfEmbed(source) ==
    LET trimmed == Trim(source)
        parts == Split(trimmed, "#")
        rawPath == parts[1]
        fragment == Join(Tail(parts), "#")
    IN  IF DecodeURIComponentThrows(rawPath)
        THEN [threw |-> TRUE, linktext |-> <<>>, page |-> 0]
        ELSE [threw |-> FALSE,
              linktext |-> Trim(DecodeURIComponent(rawPath)),
              page |-> IF Len(fragment) > 0
                       THEN parsePageFromFragment(fragment) ELSE 1]

----------------------------------------------------------------------------
(* The elements and their references *)

Element(srcAttr, dataAttr) ==
    [tag |-> "span", src |-> srcAttr, dataSrc |-> NoValue,
     dataHref |-> NoValue, data |-> dataAttr,
     class |-> <<"internal-embed">>, style |-> NoValue]

\* the elements a document of the model is made of
Elements ==
    { Element(NoValue, NoValue),
      Element(<<"z">>, NoValue),
      Element(<<"z", ".pdf">>, NoValue),
      Element(<<"z", ".pdf", "#", "page", "=", "8">>, NoValue),
      Element(<<"z", ".pdf", "#", "page", "=", "9">>, NoValue),
      Element(<<"m", ".pdf">>, NoValue),
      Element(<<"%", ".pdf">>, NoValue) }

\* a ?? b
Coalesce(a, b) == IF a # NoValue THEN a ELSE b

getEmbedSource(el) ==
    Coalesce(el.src, Coalesce(el.dataSrc, Coalesce(el.dataHref, el.data)))

\* PDF_EXT = /\.pdf$/i
PDF_EXT(path) == path # <<>> /\ path[Len(path)] \in {".pdf", ".PDF"}

looksLikePdfSource(source) == PDF_EXT(Split(source, "#")[1])

----------------------------------------------------------------------------
(* The host: the vault holds the file z.pdf of DocPages pages; nothing is  *)
(* found under any other name.                                             *)

NoFile == [path |-> <<>>, isTFile |-> FALSE]

VaultFile == [path |-> <<"z", ".pdf">>, isTFile |-> TRUE]

getFirstLinkpathDest(linktext) ==
    IF linktext = <<"z", ".pdf">> THEN VaultFile ELSE NoFile

getAbstractFileByPath(path) ==
    IF path = <<"z", ".pdf">> THEN VaultFile ELSE NoFile

numPages(file) == DocPages

\* the two lookups taken in the other order
ResolveWith_PathFirst(linkedFile, abstract) ==
    IF abstract.isTFile /\ PDF_EXT(abstract.path) THEN abstract
    ELSE IF linkedFile.isTFile /\ PDF_EXT(linkedFile.path) THEN linkedFile
    ELSE NoFile

\* lines 108-112: what resolvePdfFile makes of the host's two answers
ResolveWith(linkedFile, abstract) ==
    IF linkedFile.isTFile /\ PDF_EXT(linkedFile.path) THEN linkedFile
    ELSE IF abstract.isTFile /\ PDF_EXT(abstract.path) THEN abstract
    ELSE NoFile

resolvePdfFile(linktext) ==
    ResolveWith(getFirstLinkpathDest(linktext),
                getAbstractFileByPath(linktext))

----------------------------------------------------------------------------
(* The options of the call and the renderer's result *)

Scale == "1.5"
ImageType == "webp"
TempDir == <<"tmp", "/", "export-1">>

Max(a, b) == IF a >= b THEN a ELSE b
Min(a, b) == IF a <= b THEN a ELSE b

\* a limiter that admits one task too many
Limit_OffByOne == Max(1, concurrency) + 1

\* pLimit(Math.max(1, concurrency))
Limit == Max(1, concurrency)

\* `${file.path}|${page}|${scale}|${imageType}`
RenderKey(file, page) ==
    file.path \o <<"|", ToString(page), "|", Scale, "|", ImageType>>

\* a page that is not clamped
SafePage_Unclamped(file, page) == page

SafePage(file, page) == Max(1, Min(page, numPages(file)))

getImageMime(imageType) == "image/" \o imageType

getImageExt(imageType) == IF imageType = "jpeg" THEN "jpg" ELSE imageType

\* encodeURIComponent of one character: the unreserved ones stay
EncodeChar(c) ==
    CASE c = "|" -> <<"%", "7", "C">>
      [] c = ":" -> <<"%", "3", "A">>
      [] c = "/" -> <<"%", "2", "F">>
      [] c = "%" -> <<"%", "2", "5">>
      [] c = "#" -> <<"%", "2", "3">>
      [] c = " " -> <<"%", "2", "0">>
      [] OTHER -> <<c>>

RECURSIVE EncodeURIComponent(_)
EncodeURIComponent(s) ==
    IF s = <<>> THEN <<>>
    ELSE EncodeChar(Head(s)) \o EncodeURIComponent(Tail(s))

sanitizeForFilename(input) ==
    LET encoded == EncodeURIComponent(input) IN
    [i \in 1..Len(encoded) |-> IF encoded[i] = "%" THEN "_" ELSE encoded[i]]

\* the data URL of the encoded raster of one page at one scale
DataUrl(file, safePage, scale, imageType) ==
    <<"data:", getImageMime(imageType), ";base64,">>
        \o file.path \o <<"@", ToString(safePage), "x", scale>>

\* lines 146-147: the scratch file of a page of a document
ImagePath(path, safePage, scale, imageType) ==
    LET nameBase == sanitizeForFilename(
            path \o <<"|", "page", ":", ToString(safePage),
                      "|", "scale", ":", scale>>)
    IN  TempDir \o <<"/">> \o nameBase \o <<".", getImageExt(imageType)>>

\* what renderPdfPageToTempImage returns when no step of it fails
RenderResultAs(file, page, scale, imageType) ==
    LET safePage == SafePage(file, page) IN
    [imageSrc |-> DataUrl(file, safePage, scale, imageType),
     filePath |-> ImagePath(file.path, safePage, scale, imageType)]

\* the same with the scale and the image type of the call
RenderResult(file, page) == RenderResultAs(file, page, Scale, ImageType)

NoResult == [imageSrc |-> <<>>, filePath |-> <<>>]

toImageElement(sourceEl, imageSrc) ==
    [tag |-> "img", src |-> imageSrc, dataSrc |-> NoValue,
     dataHref |-> NoValue, data |-> NoValue,
     class |-> IF sourceEl.class # NoValue /\ sourceEl.class # <<>>
               THEN sourceEl.class ELSE NoValue,
     style |-> <<"max-width: 100%; height: auto;">>]

----------------------------------------------------------------------------
(* replaceEmbeddedPdfsWithImages                                           *)

Nodes == 1..Len(tree)

NotCalled == [state |-> "pending", linktext |-> <<>>, page |-> 0]

NoKey == <<>>

\* Promise.all over the node tasks: rejected by the first task that throws,
\* resolved when all of them have returned
PromiseAll(state, tasks, threwNow) ==
    IF state # "pending" THEN state
    ELSE IF threwNow THEN "rejected"
    ELSE IF \A n \in DOMAIN tasks : tasks[n] = "returned" THEN "resolved"
    ELSE "pending"

----------------------------------------------------------------------------
(* The parts of the state a specification does not use stay as they are    *)
(* here.                                                                   *)

NoRequest == [file |-> NoFile, page |-> 0, imageType |-> ""]

NoResources == [pdf |-> "none", pdfPage |-> "none", canvas |-> "none"]

NotAsked == [called |-> FALSE, value |-> NoValue, skipped |-> FALSE]

CallIdle ==
    /\ tree = <<>>
    /\ concurrency = 0
    /\ callState = "idle"
    /\ queue = <<>>
    /\ activeCount = 0
    /\ task = <<>>
    /\ taskKey = <<>>
    /\ cache = <<>>
    /\ renders = <<>>
    /\ dom = <<>>

ParseIdle ==
    /\ src = <<>>
    /\ parsed = NotCalled

RenderIdle ==
    /\ rq = NoRequest
    /\ rPc = "idle"
    /\ rRes = NoResources
    /\ rFetched = 0
    /\ rOut = NoResult
    /\ rNode = "embed"
    /\ rDisk = {}

RemoveIdle ==
    /\ rmPaths = <<>>
    /\ rmState = <<>>
    /\ rmCall = "idle"
    /\ rmDisk = {}

SourceIdle ==
    /\ srcEl = Element(NoValue, NoValue)
    /\ srcGot = NotAsked

NameIdle ==
    /\ nameIn = <<>>
    /\ nameOut = <<>>

ResolveIdle ==
    /\ host = [linked |-> NoFile, abstract |-> NoFile]
    /\ resolved = [called |-> FALSE, file |-> NoFile]

Init ==
    /\ \E n \in 0..MaxNodes : tree \in [1..n -> Elements]
    /\ concurrency \in {0, 1, 2}
    /\ callState = "idle"
    /\ queue = <<>>
    /\ activeCount = 0
    /\ task = [n \in Nodes |-> "none"]
    /\ taskKey = [n \in Nodes |-> NoKey]
    /\ cache = <<>>
    /\ renders = <<>>
    /\ dom = tree
    /\ ParseIdle
    /\ RenderIdle
    /\ RemoveIdle
    /\ SourceIdle
    /\ NameIdle
    /\ ResolveIdle

\* lines 194-206: the nodes are enumerated and one task per node is handed
\* to the limiter; without nodes the call returns at once
Invoke ==
    /\ callState = "idle"
    /\ IF Len(tree) = 0
       THEN /\ callState' = "resolved"
            /\ UNCHANGED <<queue, task>>
       ELSE /\ callState' = "pending"
            /\ queue' = [i \in 1..Len(tree) |-> i]
            /\ task' = [n \in Nodes |-> "queued"]
    /\ UNCHANGED <<tree, concurrency, activeCount, taskKey, cache, renders,
                   dom, sideVars>>

\* the task without the `if (!file) return` of lines 214-216
Skips_NoResolveCheck(el) ==
    LET source == getEmbedSource(el) IN
    \/ source = NoValue
    \/ source = <<>>
    \/ ~looksLikePdfSource(source)

\* the task of this element returns before it computes a key (lines 207-216)
Skips(el) ==
    LET source == getEmbedSource(el) IN
    \/ source = NoValue
    \/ source = <<>>
    \/ ~looksLikePdfSource(source)
    \/ /\ ~parsePdfEmbed(source).threw
       /\ resolvePdfFile(parsePdfEmbed(source).linktext) = NoFile

Throws(el) ==
    LET source == getEmbedSource(el) IN
    /\ source # NoValue
    /\ source # <<>>
    /\ looksLikePdfSource(source)
    /\ parsePdfEmbed(source).threw

\* a lookup that never finds the key
CacheHas_Never(key) == FALSE

\* cache.has(key)
CacheHas(key) == \E i \in DOMAIN cache : cache[i].key = key

\* a lookup that ignores the key
CacheGet_AnyKey(key) == (CHOOSE i \in DOMAIN cache : TRUE)

\* cache.get(key): the index in renders of the promise stored for the key
CacheGet(key) == (CHOOSE i \in DOMAIN cache : cache[i].key = key)

\* the limiter starts the task in front of the queue when fewer than Limit
\* tasks are active; the task runs up to its first await (lines 207-223)
StartTask ==
    /\ callState # "idle"
    /\ queue # <<>>
    /\ activeCount < Limit
    /\ LET n == Head(queue)
           el == tree[n]
       IN  /\ queue' = Tail(queue)
           /\ IF Skips(el)
              THEN /\ task' = [task EXCEPT ![n] = "returned"]
                   /\ callState' = PromiseAll(callState, task', FALSE)
                   /\ UNCHANGED <<activeCount, taskKey, cache, renders>>
              ELSE IF Throws(el)
              THEN /\ task' = [task EXCEPT ![n] = "threw"]
                   /\ callState' = PromiseAll(callState, task', TRUE)
                   /\ UNCHANGED <<activeCount, taskKey, cache, renders>>
              ELSE LET p == parsePdfEmbed(getEmbedSource(el))
                       file == resolvePdfFile(p.linktext)
                       key == RenderKey(file, p.page)
                   IN  /\ task' = [task EXCEPT ![n] = "awaiting"]
                       /\ taskKey' = [taskKey EXCEPT ![n] = key]
                       /\ activeCount' = activeCount + 1
                       /\ IF ~CacheHas(key)
                          THEN /\ renders' = Append(renders,
                                      [key |-> key, file |-> file,
                                       page |-> p.page, by |-> n,
                                       state |-> "running",
                                       result |-> NoResult])
                               /\ cache' = Append(cache,
                                      [key |-> key,
                                       promise |-> Len(renders) + 1])
                          ELSE UNCHANGED <<cache, renders>>
                       /\ UNCHANGED callState
    /\ UNCHANGED <<tree, concurrency, dom, sideVars>>

\* lines 124-160: a running renderer invocation settles; any of its steps
\* (read, decode, getPage, context, raster, encode, data URL, write) may fail
RenderSettle(r, ok) ==
    /\ renders[r].state = "running"
    /\ renders' = [renders EXCEPT
          ![r].state = IF ok THEN "ok" ELSE "failed",
          ![r].result = IF ok THEN RenderResult(renders[r].file,
                                                renders[r].page)
                        ELSE NoResult]
    /\ UNCHANGED <<tree, concurrency, callState, queue, activeCount, task,
                   taskKey, cache, dom, sideVars>>

\* a replacement that does not look at the outcome
ReplaceWith_Always(n, r) ==
    [dom EXCEPT ![n] = toImageElement(tree[n], r.result.imageSrc)]

\* lines 224-227: the document after the task of node n got result r
ReplaceWith(n, r) ==
    IF r.state = "ok"
    THEN [dom EXCEPT ![n] = toImageElement(tree[n], r.result.imageSrc)]
    ELSE dom

\* a limiter that keeps the slot of a task that threw
SlotsAfter_KeptOnThrow(count, n) ==
    IF renders[cache[CacheGet(taskKey[n])].promise].state = "ok"
    THEN count - 1
    ELSE count

\* the limiter gives the slot of the task of node n back once the task has
\* settled, whether it returned or threw
SlotsAfter(count, n) == count - 1

\* lines 223-227: the task of node n resumes from `await cache.get(key)`
ResumeTask(n) ==
    /\ task[n] = "awaiting"
    /\ LET r == renders[cache[CacheGet(taskKey[n])].promise] IN
       /\ r.state # "running"
       /\ dom' = ReplaceWith(n, r)
       /\ IF r.state = "ok"
          THEN /\ task' = [task EXCEPT ![n] = "returned"]
               /\ callState' = PromiseAll(callState, task', FALSE)
          ELSE /\ task' = [task EXCEPT ![n] = "threw"]
               /\ callState' = PromiseAll(callState, task', TRUE)
    /\ activeCount' = SlotsAfter(activeCount, n)
    /\ UNCHANGED <<tree, concurrency, queue, taskKey, cache, renders,
                   sideVars>>

Next ==
    \/ Invoke
    \/ StartTask
    \/ \E r \in DOMAIN renders, ok \in BOOLEAN : RenderSettle(r, ok)
    \/ \E n \in Nodes : ResumeTask(n)

Spec == Init /\ [][Next]_vars

\* ENABLED <<StartTask>>_vars written out: every branch of StartTask can be
\* taken and each of them shortens the queue
StartTaskEnabled ==
    /\ callState # "idle"
    /\ queue # <<>>
    /\ activeCount < Limit

\* the same with the scheduling of the event loop: a task the limiter can
\* start is started (the weak fairness of StartTask, with its enabling
\* condition written out), a task whose awaited promise has settled resumes
\* (weak fairness of ResumeTask), and every started renderer invocation
\* settles (weak fairness of RenderSettle)
FairSpec ==
    /\ Spec
    /\ (<>[]StartTaskEnabled => []<><<StartTask>>_vars)
    /\ WF_vars(\E r \in DOMAIN renders, ok \in BOOLEAN : RenderSettle(r, ok))
    /\ WF_vars(\E n \in Nodes : ResumeTask(n))

----------------------------------------------------------------------------
(* Properties of replaceEmbeddedPdfsWithImages *)

Keyed(n) == taskKey[n] # NoKey

Finished(n) == task[n] \in {"returned", "threw"}

\* the renderer invocations made for a key
RendersOf(key) == {r \in DOMAIN renders : renders[r].key = key}

\* the first renderer invocation made for a key
RenderOf(key) ==
    renders[CHOOSE r \in RendersOf(key) : \A q \in RendersOf(key) : r <= q]

InFlight == {r \in DOMAIN renders : renders[r].state = "running"}

\* the reference of the element looks like a PDF, parses, and names no file
NotFound(el) ==
    LET source == getEmbedSource(el) IN
    /\ source # NoValue
    /\ source # <<>>
    /\ looksLikePdfSource(source)
    /\ ~parsePdfEmbed(source).threw
    /\ resolvePdfFile(parsePdfEmbed(source).linktext) = NoFile

\* C1: in one call the renderer is invoked exactly once for every RenderKey
\* some node resolved to, however many nodes share the key; the cache holds
\* one entry per key, the promise of that one invocation, and keeps it after
\* the render has failed (no second invocation, no overwritten entry).
C1_RenderOncePerKey ==
    /\ \A i, j \in DOMAIN renders :
          renders[i].key = renders[j].key => i = j
    /\ \A i, j \in DOMAIN cache : cache[i].key = cache[j].key => i = j
    /\ Len(cache) = Len(renders)
    /\ \A i \in DOMAIN cache :
          /\ cache[i].promise \in DOMAIN renders
          /\ renders[cache[i].promise].key = cache[i].key
    /\ \A n \in Nodes : Keyed(n) => Cardinality(RendersOf(taskKey[n])) = 1

\* two nodes shared a key, its one render failed, both tasks have seen it
C1_Witness ==
    \E n, m \in Nodes :
        /\ n # m
        /\ Keyed(n)
        /\ taskKey[n] = taskKey[m]
        /\ task[n] = "threw"
        /\ task[m] = "threw"
        /\ Cardinality(RendersOf(taskKey[n])) = 1

\* C2: the number of renderer invocations started and not settled never
\* exceeds max(1, concurrency); with concurrency <= 1 no two overlap.
C2_BoundedRenders ==
    /\ Cardinality(InFlight) <= Max(1, concurrency)
    /\ concurrency <= 1 => Cardinality(InFlight) <= 1

\* the limiter is full and holds back a node that needs a render of its own
C2_Witness ==
    /\ Cardinality(InFlight) = Max(1, concurrency)
    /\ queue # <<>>
    /\ ~Skips(tree[Head(queue)])
    /\ ~Throws(tree[Head(queue)])
    /\ \A r \in DOMAIN renders :
          renders[r].key #
              RenderKey(resolvePdfFile(
                            parsePdfEmbed(getEmbedSource(tree[Head(queue)]))
                                .linktext),
                        parsePdfEmbed(getEmbedSource(tree[Head(queue)])).page)

\* no reference of the document makes parsePdfEmbed throw
AllParse == \A n \in Nodes : ~Throws(tree[n])

\* C3: the promise of the call is never rejected when renderer invocations
\* fail (the documents looked at are those whose references all parse).
C3_NeverRejected == AllParse => callState # "rejected"

\* C4: when the promise of the call has settled, no node task is queued or
\* running and no renderer invocation is in flight, also when a renderer
\* invocation has failed (the documents looked at are those whose references
\* all parse).
C4_SettledMeansQuiet ==
    (AllParse /\ callState \in {"resolved", "rejected"}) =>
        /\ queue = <<>>
        /\ \A n \in Nodes : Finished(n)
        /\ InFlight = {}

C6_FailedNodeUntouched ==
    \A n \in Nodes : Keyed(n) =>
        /\ RenderOf(taskKey[n]).state = "failed" => dom[n] = tree[n]
        /\ (Finished(n) /\ RenderOf(taskKey[n]).state = "ok") =>
              (dom[n].tag = "img" /\ dom[n] # tree[n])

\* one node failed and kept its element, another one was started after that
\* failure had rejected the call and was replaced all the same
C6_Witness ==
    \E n, m \in Nodes :
        /\ n < m
        /\ task[n] = "threw"
        /\ Keyed(n)
        /\ dom[n] = tree[n]
        /\ Keyed(m)
        /\ taskKey[m] # taskKey[n]
        /\ dom[m].tag = "img"
        /\ callState = "rejected"

\* C7: a node whose reference looks like a PDF and resolves to no file is
\* left as it was, computes no key, starts no renderer invocation and does
\* not throw; the call is rejected only by a task that threw, and resolves
\* when all tasks have returned.
C7_NotFoundSkipped ==
    /\ \A n \in Nodes : NotFound(tree[n]) =>
          /\ dom[n] = tree[n]
          /\ ~Keyed(n)
          /\ task[n] # "threw"
          /\ task[n] # "awaiting"
          /\ \A r \in DOMAIN renders : renders[r].by # n
    /\ callState = "rejected" =>
          \E n \in Nodes : task[n] = "threw" /\ ~NotFound(tree[n])
    /\ (callState # "idle" /\ \A n \in Nodes : task[n] = "returned")
          => callState = "resolved"

\* the call has resolved over a document with an unresolvable reference and
\* a node that was replaced
C7_Witness ==
    /\ callState = "resolved"
    /\ \E n, m \in Nodes :
          /\ NotFound(tree[n])
          /\ task[n] = "returned"
          /\ dom[m].tag = "img"

\* the key the task of an element computes (line 218)
KeyOfElement(e) ==
    RenderKey(resolvePdfFile(parsePdfEmbed(getEmbedSource(e)).linktext),
              parsePdfEmbed(getEmbedSource(e)).page)

\* C13: nodes that wait for the render of a key another node started hold
\* no limiter slot: while every started task waits for a running render and
\* fewer than max(1, concurrency) renders are running, the limiter admits the
\* next node, whose key has no render yet.
C13_SharedKeyTakesNoSlot ==
    ( /\ callState # "idle"
      /\ queue # <<>>
      /\ ~Skips(tree[Head(queue)])
      /\ ~Throws(tree[Head(queue)])
      /\ RendersOf(KeyOfElement(tree[Head(queue)])) = {}
      /\ \A n \in Nodes : task[n] = "awaiting" =>
            RenderOf(taskKey[n]).state = "running"
      /\ Cardinality(InFlight) < Limit )
    => activeCount < Limit

\* the clamped page and the document decide the pixels (scale and image type
\* are those of the call)
SameOutput(n, m) ==
    LET rn == RenderOf(taskKey[n])
        rm == RenderOf(taskKey[m])
    IN  /\ rn.file.path = rm.file.path
        /\ SafePage(rn.file, rn.page) = SafePage(rm.file, rm.page)

\* C8: two embeds map to the same RenderKey exactly when they would produce
\* the same output (same document, same page after clamping, same scale and
\* image type), so embeds of one output cause one renderer invocation.
C8_KeyUniqueness ==
    \A n, m \in Nodes : (Keyed(n) /\ Keyed(m)) =>
        (SameOutput(n, m) <=> taskKey[n] = taskKey[m])


Settled == callState \in {"resolved", "rejected"}

\* C18: once replaceEmbeddedPdfsWithImages is called, and given that every
\* started renderer invocation settles, the call settles, every queued task
\* is run and every task finishes, whatever the number of nodes, the sharing
\* of keys and the concurrency: a task that holds a slot while it waits on a
\* shared cache entry does not keep the render it waits for from settling.
C18_CallTerminates ==
    (callState # "idle") ~>
        (Settled /\ queue = <<>> /\ \A n \in Nodes : Finished(n))

\* a call at the limit of one task, with more nodes than slots and two nodes
\* on one cache entry, has settled with every task finished
C18_Witness ==
    /\ Settled
    /\ queue = <<>>
    /\ \A n \in Nodes : Finished(n)
    /\ Limit = 1
    /\ Len(tree) > Limit
    /\ \E n, m \in Nodes : n # m /\ Keyed(n) /\ taskKey[n] = taskKey[m]

\* renderer invocations that have written their scratch file (line 148)
Wrote == {r \in DOMAIN renders : renders[r].state = "ok"}

\* C19: within one call no two renderer invocations write the same scratch
\* file: the invocations made for distinct keys write distinct paths, also
\* when their pages clamp to the same page of one document.
C19_DistinctScratchPaths ==
    \A r, q \in Wrote :
        renders[r].key # renders[q].key =>
            renders[r].result.filePath # renders[q].result.filePath
----------------------------------------------------------------------------
(* SpecParse: parsePdfEmbed applied to every string of at most MaxSrcLen   *)
(* tokens of ParseAlphabet.                                                *)

ParseAlphabet == {"%", "0", "2", "#", "page", "=", ".", "-"}

InitParse ==
    /\ CallIdle
    /\ RenderIdle
    /\ RemoveIdle
    /\ SourceIdle
    /\ NameIdle
    /\ ResolveIdle
    /\ \E n \in 0..MaxSrcLen : src \in [1..n -> ParseAlphabet]
    /\ parsed = NotCalled

CallParsePdfEmbed ==
    /\ parsed.state = "pending"
    /\ LET r == parsePdfEmbed(src) IN
       parsed' = [state |-> IF r.threw THEN "threw" ELSE "returned",
                  linktext |-> r.linktext,
                  page |-> r.page]
    /\ UNCHANGED <<src, callVars, renderVars, removeVars, sourceVars,
                   nameVars, resolveVars>>

NextParse == CallParsePdfEmbed

SpecParse == InitParse /\ [][NextParse]_vars

----------------------------------------------------------------------------
(* Properties of parsePdfEmbed *)

\* C9: parsePdfEmbed throws on no input string.
C9_ParseNeverThrows == parsed.state # "threw"

\* the text after the first "#" of the trimmed argument, NoValue without "#"
FragmentOf(s) ==
    LET t == Trim(s)
        i == IndexOf(t, "#")
    IN  IF i = 0 THEN NoValue ELSE SubSeq(t, i + 1, Len(t))

\* the fragment reads page=N
IsPageFragment(f) ==
    /\ f # NoValue
    /\ Len(f) >= 2
    /\ f[1] = "page"
    /\ f[2] = "="
    /\ IndexOf(f, "&") = 0

\* N is written without the escapes that URLSearchParams decodes
IsPlain(N) == IndexOf(N, "%") = 0 /\ IndexOf(N, "+") = 0

PageArg(f) == SubSeq(f, 3, Len(f))

\* the fragment has no parameter named page
LacksPage(f) == f # NoValue /\ IndexOf(f, "page") = 0

\* the page the claim's reference function gives for the value N of page=N,
\* where a fractional N gives floor(N) whatever its size
ReferencePage(N) ==
    LET v == ToNumber(N) IN
    IF v.nan \/ v.neg THEN 1
    ELSE IF v.frac THEN v.ip
    ELSE IF v.ip = 0 THEN 1
    ELSE v.ip

\* the same, where every N below 1 gives 1
ReferencePageFrom1(N) ==
    LET v == ToNumber(N) IN
    IF v.nan \/ v.neg \/ v.ip = 0 THEN 1 ELSE v.ip

\* C10 as the specification words it: page 1 without "#"; for a fragment
\* page=N the page is N for a positive integer, 1 for zero, a negative or
\* non-numeric N or a missing parameter, and floor(N) for a fractional N.
C10_PageIsReference ==
    parsed.state = "returned" =>
        LET f == FragmentOf(src) IN
        /\ f = NoValue => parsed.page = 1
        /\ LacksPage(f) => parsed.page = 1
        /\ IsPageFragment(f) => parsed.page = ReferencePage(PageArg(f))

\* C10, amended: as above for an N written without percent-escapes and "+",
\* but a fractional N gives floor(N) only when N >= 1, and 1 when it is
\* below 1; the page is always an integer >= 1.
C10_PageIsReferenceFrom1 ==
    parsed.state = "returned" =>
        LET f == FragmentOf(src) IN
        /\ parsed.page \in Nat
        /\ parsed.page >= 1
        /\ f = NoValue => parsed.page = 1
        /\ LacksPage(f) => parsed.page = 1
        /\ (IsPageFragment(f) /\ IsPlain(PageArg(f))) =>
              parsed.page = ReferencePageFrom1(PageArg(f))

\* a fractional page of 2 or more has been parsed to its floor
C10_Witness ==
    /\ parsed.state = "returned"
    /\ IsPageFragment(FragmentOf(src))
    /\ IsPlain(PageArg(FragmentOf(src)))
    /\ ToNumber(PageArg(FragmentOf(src))).frac
    /\ ~ToNumber(PageArg(FragmentOf(src))).neg
    /\ parsed.page >= 2
    /\ parsed.page = ToNumber(PageArg(FragmentOf(src))).ip

----------------------------------------------------------------------------
(* SpecRender: one node task that starts renderPdfPageToTempImage for a    *)
(* page of the vault's document, followed through every await of the       *)
(* renderer (lines 124-160) and the replacement of the node (223-227).     *)
(* Every awaited step of the host or of the rendering library may fail.    *)

ImageTypes == {"webp", "png", "jpeg"}

notRenderVars == <<callVars, parseVars, removeVars, sourceVars, nameVars,
                   resolveVars>>

InitRender ==
    /\ CallIdle
    /\ ParseIdle
    /\ RemoveIdle
    /\ SourceIdle
    /\ NameIdle
    /\ ResolveIdle
    /\ \E p \in 0..MaxPage, t \in ImageTypes :
          rq = [file |-> VaultFile, page |-> p, imageType |-> t]
    /\ rPc = "readBinary"
    /\ rRes = NoResources
    /\ rFetched = 0
    /\ rOut = NoResult
    /\ rNode = "embed"
    /\ rDisk = {}

\* a finally block that cleans the document up only next to the page
Finally_InsidePageCheck(res) ==
    [pdfPage |-> IF res.pdfPage = "open" THEN "cleaned" ELSE res.pdfPage,
     canvas |-> "zeroed",
     pdf |-> IF res.pdfPage = "open" THEN "cleaned" ELSE res.pdf]

\* the finally block of lines 153-160
Finally(res) ==
    [pdfPage |-> IF res.pdfPage = "open" THEN "cleaned" ELSE res.pdfPage,
     canvas |-> "zeroed",
     pdf |-> "cleaned"]

\* an error inside the try block: the finally block runs, the promise of
\* the invocation is rejected
ThrowInTry ==
    /\ rRes' = Finally(rRes)
    /\ rPc' = "rejected"

\* line 124: await app.vault.readBinary(file)
ReadBinary(ok) ==
    /\ rPc = "readBinary"
    /\ rPc' = IF ok THEN "getDocument" ELSE "rejected"
    /\ UNCHANGED <<rq, rRes, rFetched, rOut, rNode, rDisk>>
    /\ UNCHANGED notRenderVars

\* lines 125-131: await loadingTask.promise; then the canvas is created,
\* the page is clamped and pdf.getPage is called
GetDocument(ok) ==
    /\ rPc = "getDocument"
    /\ IF ok
       THEN /\ rRes' = [rRes EXCEPT !.pdf = "open", !.canvas = "created"]
            /\ rFetched' = SafePage(rq.file, rq.page)
            /\ rPc' = "getPage"
       ELSE /\ rPc' = "rejected"
            /\ UNCHANGED <<rRes, rFetched>>
    /\ UNCHANGED <<rq, rOut, rNode, rDisk>>
    /\ UNCHANGED notRenderVars

\* lines 131-141: await pdf.getPage(safePage), which fails for a page the
\* document has not; then the viewport, the 2d context (null: throw), the
\* size of the canvas and the start of pdfPage.render
GetPage(outcome) ==
    /\ rPc = "getPage"
    /\ outcome = "page" => rFetched \in 1..numPages(rq.file)
    /\ IF outcome = "page"
       THEN /\ rRes' = [rRes EXCEPT !.pdfPage = "open", !.canvas = "sized"]
            /\ rPc' = "render"
       ELSE IF outcome = "nocontext"
       THEN /\ rFetched \in 1..numPages(rq.file)
            /\ rRes' = Finally([rRes EXCEPT !.pdfPage = "open"])
            /\ rPc' = "rejected"
       ELSE ThrowInTry
    /\ UNCHANGED <<rq, rFetched, rOut, rNode, rDisk>>
    /\ UNCHANGED notRenderVars

\* line 141: await pdfPage.render(...).promise
Raster(ok) ==
    /\ rPc = "render"
    /\ IF ok THEN rPc' = "toBlob" /\ UNCHANGED rRes ELSE ThrowInTry
    /\ UNCHANGED <<rq, rFetched, rOut, rNode, rDisk>>
    /\ UNCHANGED notRenderVars

\* line 142: await blobFromCanvas(canvas, imageType)
Encode(ok) ==
    /\ rPc = "toBlob"
    /\ IF ok THEN rPc' = "toDataUrl" /\ UNCHANGED rRes ELSE ThrowInTry
    /\ UNCHANGED <<rq, rFetched, rOut, rNode, rDisk>>
    /\ UNCHANGED notRenderVars

\* line 143: await blobToDataUrl(blob)
ToDataUrl(ok) ==
    /\ rPc = "toDataUrl"
    /\ IF ok THEN rPc' = "arrayBuffer" /\ UNCHANGED rRes ELSE ThrowInTry
    /\ UNCHANGED <<rq, rFetched, rOut, rNode, rDisk>>
    /\ UNCHANGED notRenderVars

\* lines 144-148: await blob.arrayBuffer(); then the name of the scratch
\* file is made and fs.writeFile is called
ToBuffer(ok) ==
    /\ rPc = "arrayBuffer"
    /\ IF ok THEN rPc' = "writeFile" /\ UNCHANGED rRes ELSE ThrowInTry
    /\ UNCHANGED <<rq, rFetched, rOut, rNode, rDisk>>
    /\ UNCHANGED notRenderVars

\* lines 148-160: await fs.writeFile(imagePath, outBuffer); return
WriteFile(ok) ==
    /\ rPc = "writeFile"
    /\ IF ok
       THEN /\ rDisk' = rDisk \cup
                  {ImagePath(rq.file.path, rFetched, Scale, rq.imageType)}
            /\ rOut' = [imageSrc |-> DataUrl(rq.file, rFetched, Scale,
                                             rq.imageType),
                        filePath |-> ImagePath(rq.file.path, rFetched, Scale,
                                               rq.imageType)]
            /\ rRes' = Finally(rRes)
            /\ rPc' = "resolved"
       ELSE /\ ThrowInTry
            /\ UNCHANGED <<rOut, rDisk>>
    /\ UNCHANGED <<rq, rFetched, rNode>>
    /\ UNCHANGED notRenderVars

\* lines 223-227: the task that awaited the invocation goes on
TaskAfterRender ==
    /\ rPc \in {"resolved", "rejected"}
    /\ rNode = "embed"
    /\ rNode' = IF rPc = "resolved" THEN "img" ELSE "kept"
    /\ UNCHANGED <<rq, rPc, rRes, rFetched, rOut, rDisk>>
    /\ UNCHANGED notRenderVars

NextRender ==
    \/ \E ok \in BOOLEAN : ReadBinary(ok)
    \/ \E ok \in BOOLEAN : GetDocument(ok)
    \/ \E outcome \in {"page", "nocontext", "error"} : GetPage(outcome)
    \/ \E ok \in BOOLEAN : Raster(ok)
    \/ \E ok \in BOOLEAN : Encode(ok)
    \/ \E ok \in BOOLEAN : ToDataUrl(ok)
    \/ \E ok \in BOOLEAN : ToBuffer(ok)
    \/ \E ok \in BOOLEAN : WriteFile(ok)
    \/ TaskAfterRender

SpecRender == InitRender /\ [][NextRender]_vars

----------------------------------------------------------------------------
(* Properties of renderPdfPageToTempImage *)

\* C11: for a requested page p >= 1 of a document of n pages the page handed
\* to pdf.getPage is min(p, n), a page the document has, so that a request
\* beyond the last page does not make getPage fail; the result returned is
\* the image of that page, and the node is replaced by it.
C11_PageClamped ==
    LET n == numPages(rq.file) IN
    /\ rRes.pdf # "none" =>
          /\ rFetched \in 1..n
          /\ rq.page >= 1 => rFetched = Min(rq.page, n)
    /\ rPc = "resolved" =>
          rOut.imageSrc = DataUrl(rq.file, Min(Max(rq.page, 1), n), Scale,
                                  rq.imageType)
    /\ rNode = "img" => rPc = "resolved"

\* a page beyond the last one was requested, the last page was rendered and
\* the node replaced
C11_Witness ==
    /\ rq.page > numPages(rq.file)
    /\ rFetched = numPages(rq.file)
    /\ rPc = "resolved"
    /\ rNode = "img"

\* C14: when the invocation has returned or thrown, after a failure at any
\* step from obtaining the page to writing the scratch file or after none,
\* the page object (if obtained), the decoded document and the canvas have
\* been released.
C14_ReleasedOnExit ==
    rPc \in {"resolved", "rejected"} =>
        /\ rRes.pdf \in {"none", "cleaned"}
        /\ rRes.pdfPage \in {"none", "cleaned"}
        /\ rRes.canvas \in {"none", "zeroed"}
        /\ rRes.pdf = "cleaned" <=> rRes.canvas = "zeroed"

\* the invocation failed at getPage, with a document to release and no page
C14_Witness ==
    /\ rPc = "rejected"
    /\ rRes = [pdf |-> "cleaned", pdfPage |-> "none", canvas |-> "zeroed"]

----------------------------------------------------------------------------
(* SpecRemove: removeTempPaths on a list of paths, each of which may or    *)
(* may not exist; every fs.rm may fail.                                    *)

PathNames == {<<"tmp", "/", "a">>, <<"tmp", "/", "b">>}

notRemoveVars == <<callVars, parseVars, renderVars, sourceVars, nameVars,
                   resolveVars>>

InitRemove ==
    /\ CallIdle
    /\ ParseIdle
    /\ RenderIdle
    /\ SourceIdle
    /\ NameIdle
    /\ ResolveIdle
    /\ \E n \in 0..MaxPaths : rmPaths \in [1..n -> PathNames]
    /\ rmState = [i \in DOMAIN rmPaths |-> "none"]
    /\ rmCall = "idle"
    /\ rmDisk \in SUBSET PathNames

\* a combinator that rejects with the first removal that fails (Promise.all)
AllSettled_RejectsOnFailure(states) ==
    IF \E i \in DOMAIN states : states[i] = "failed" THEN "rejected"
    ELSE IF \A i \in DOMAIN states : states[i] # "pending" THEN "resolved"
    ELSE "pending"

\* await Promise.allSettled(...): resolved once no removal is pending
AllSettled(states) ==
    IF \A i \in DOMAIN states : states[i] # "pending" THEN "resolved"
    ELSE "pending"

\* line 181: paths.map starts fs.rm for every path
CallRemoveTempPaths ==
    /\ rmCall = "idle"
    /\ rmState' = [i \in DOMAIN rmPaths |-> "pending"]
    /\ rmCall' = AllSettled(rmState')
    /\ UNCHANGED <<rmPaths, rmDisk>>
    /\ UNCHANGED notRemoveVars

\* fs.rm(item, { recursive: true, force: true }) settles; with force a path
\* that does not exist is no error
RmSettles(i, ok) ==
    /\ rmState[i] = "pending"
    /\ rmState' = [rmState EXCEPT ![i] = IF ok THEN "removed" ELSE "failed"]
    /\ rmDisk' = IF ok THEN rmDisk \ {rmPaths[i]} ELSE rmDisk
    /\ rmCall' = AllSettled(rmState')
    /\ UNCHANGED rmPaths
    /\ UNCHANGED notRemoveVars

NextRemove ==
    \/ CallRemoveTempPaths
    \/ \E i \in DOMAIN rmPaths, ok \in BOOLEAN : RmSettles(i, ok)

SpecRemove == InitRemove /\ [][NextRemove]_vars

----------------------------------------------------------------------------
(* Properties of removeTempPaths *)

\* C12: the removal of every path is attempted, whatever becomes of the
\* others, and the promise of removeTempPaths is never rejected: it resolves
\* when every removal has settled, failed or not.
C12_RemoveAlwaysResolves ==
    /\ rmCall # "rejected"
    /\ rmCall # "idle" => \A i \in DOMAIN rmPaths : rmState[i] # "none"
    /\ (rmCall # "idle"
          /\ \A i \in DOMAIN rmPaths : rmState[i] \in {"removed", "failed"})
        => rmCall = "resolved"
    /\ rmCall = "resolved" =>
          \A i \in DOMAIN rmPaths : rmState[i] \in {"removed", "failed"}

\* the call resolved although a removal failed, and a later path was removed
C12_Witness ==
    /\ rmCall = "resolved"
    /\ \E i, j \in DOMAIN rmPaths :
          /\ i < j
          /\ rmState[i] = "failed"
          /\ rmState[j] = "removed"
          /\ rmPaths[j] \notin rmDisk

----------------------------------------------------------------------------
(* SpecSource: lines 207-210 on an element whose four attributes are each  *)
(* absent, empty or a PDF reference.                                       *)

AttrValues == {NoValue, <<>>, <<"z", ".pdf">>}

notSourceVars == <<callVars, parseVars, renderVars, removeVars, nameVars,
                   resolveVars>>

InitSource ==
    /\ CallIdle
    /\ ParseIdle
    /\ RenderIdle
    /\ RemoveIdle
    /\ NameIdle
    /\ ResolveIdle
    /\ \E a, b, c, d \in AttrValues :
          srcEl = [tag |-> "span", src |-> a, dataSrc |-> b, dataHref |-> c,
                   data |-> d, class |-> <<"internal-embed">>,
                   style |-> NoValue]
    /\ srcGot = NotAsked

\* lines 207-210: the source of the node is read and the node is skipped
\* when `!source || !looksLikePdfSource(source)`
CallGetEmbedSource ==
    /\ ~srcGot.called
    /\ LET got == getEmbedSource(srcEl) IN
       srcGot' = [called |-> TRUE,
                  value |-> got,
                  skipped |-> \/ got = NoValue
                              \/ got = <<>>
                              \/ ~looksLikePdfSource(got)]
    /\ UNCHANGED srcEl
    /\ UNCHANGED notSourceVars

NextSource == CallGetEmbedSource

SpecSource == InitSource /\ [][NextSource]_vars

----------------------------------------------------------------------------
(* Properties of getEmbedSource *)

AttrsInOrder(e) == <<e.src, e.dataSrc, e.dataHref, e.data>>

HasValue(a) == a # NoValue /\ a # <<>>

\* the first attribute of the four that is present and not empty
FirstNonEmpty(e) ==
    LET attrs == AttrsInOrder(e)
        filled == {i \in 1..4 : HasValue(attrs[i])}
    IN  IF filled = {} THEN NoValue
        ELSE attrs[CHOOSE i \in filled : \A j \in filled : i <= j]

\* C15: getEmbedSource returns the first non-empty value among src,
\* data-src, data-href and data, so that a node with an empty earlier
\* attribute and a PDF reference in a later one is not skipped; without any
\* value there is no source.
C15_FirstNonEmpty ==
    srcGot.called =>
        /\ HasValue(FirstNonEmpty(srcEl)) =>
              /\ srcGot.value = FirstNonEmpty(srcEl)
              /\ looksLikePdfSource(FirstNonEmpty(srcEl)) => ~srcGot.skipped
        /\ ~HasValue(FirstNonEmpty(srcEl)) =>
              /\ ~HasValue(srcGot.value)
              /\ srcGot.skipped

----------------------------------------------------------------------------
(* SpecName: lines 146-147 applied to two requests (document path, clamped *)
(* page, scale) of one image type; the paths hold the characters that      *)
(* sanitizeForFilename rewrites and the ones it leaves.                    *)

PathAlphabet == {"%", "_", "2", "5"}

NamePages == {1, 2}

NameScales == {Scale, "2"}

NameRequests ==
    {[path |-> stem \o <<".pdf">>, page |-> p, scale |-> sc] :
        stem \in UNION {[1..n -> PathAlphabet] : n \in 1..MaxPathLen},
        p \in NamePages, sc \in NameScales}

notNameVars == <<callVars, parseVars, renderVars, removeVars, sourceVars,
                 resolveVars>>

InitName ==
    /\ CallIdle
    /\ ParseIdle
    /\ RenderIdle
    /\ RemoveIdle
    /\ SourceIdle
    /\ ResolveIdle
    /\ \E a, b \in NameRequests : nameIn = <<a, b>>
    /\ nameOut = <<>>

\* lines 146-147 for each of the two requests
CallImagePath ==
    /\ nameOut = <<>>
    /\ nameOut' = [i \in 1..2 |->
                      ImagePath(nameIn[i].path, nameIn[i].page,
                                nameIn[i].scale, ImageType)]
    /\ UNCHANGED nameIn
    /\ UNCHANGED notNameVars

NextName == CallImagePath

SpecName == InitName /\ [][NextName]_vars

----------------------------------------------------------------------------
(* Properties of the scratch-file name *)

\* C16: for one image type the scratch-file name is collision-free and
\* deterministic: two requests (document path, clamped page, scale) get the
\* same file name exactly when they are the same request.
C16_NameInjective ==
    nameOut # <<>> =>
        /\ nameIn[1] = nameIn[2] => nameOut[1] = nameOut[2]
        /\ nameOut[1] = nameOut[2] => nameIn[1] = nameIn[2]

----------------------------------------------------------------------------
(* SpecResolve: resolvePdfFile against a host whose link resolution and    *)
(* path lookup each answer with nothing, a folder or a file.               *)

HostAnswers ==
    {NoFile,
     [path |-> <<"d">>, isTFile |-> FALSE],
     [path |-> <<"f", ".pdf">>, isTFile |-> FALSE],
     [path |-> <<"n", ".md">>, isTFile |-> TRUE],
     [path |-> <<"w", ".pdf", ".md">>, isTFile |-> TRUE],
     [path |-> <<"z", ".pdf">>, isTFile |-> TRUE],
     [path |-> <<"d", "/", "y", ".pdf">>, isTFile |-> TRUE],
     [path |-> <<"u", ".PDF">>, isTFile |-> TRUE]}

notResolveVars == <<callVars, parseVars, renderVars, removeVars, sourceVars,
                    nameVars>>

InitResolve ==
    /\ CallIdle
    /\ ParseIdle
    /\ RenderIdle
    /\ RemoveIdle
    /\ SourceIdle
    /\ NameIdle
    /\ \E a, b \in HostAnswers : host = [linked |-> a, abstract |-> b]
    /\ resolved = [called |-> FALSE, file |-> NoFile]

\* lines 103-113 with the host's answers of this state
CallResolvePdfFile ==
    /\ ~resolved.called
    /\ resolved' = [called |-> TRUE,
                    file |-> ResolveWith(host.linked, host.abstract)]
    /\ UNCHANGED host
    /\ UNCHANGED notResolveVars

NextResolve == CallResolvePdfFile

SpecResolve == InitResolve /\ [][NextResolve]_vars

----------------------------------------------------------------------------
(* Properties of resolvePdfFile *)

\* the path ends in .pdf, in whatever case
HasPdfExtension(path) ==
    /\ Len(path) >= 1
    /\ \E ext \in {".pdf", ".PDF"} : SubSeq(path, Len(path), Len(path)) = <<ext>>

IsPdfFile(f) == f.isTFile /\ HasPdfExtension(f.path)

\* C17: resolvePdfFile returns the link-resolution match when that is a file
\* with the .pdf extension; otherwise the direct-path match when that is a
\* file with the .pdf extension; otherwise not-found.  What it returns never
\* lacks the .pdf extension.
C17_ResolveOrder ==
    resolved.called =>
        /\ IsPdfFile(host.linked) => resolved.file = host.linked
        /\ (~IsPdfFile(host.linked) /\ IsPdfFile(host.abstract)) =>
              resolved.file = host.abstract
        /\ (~IsPdfFile(host.linked) /\ ~IsPdfFile(host.abstract)) =>
              resolved.file = NoFile
        /\ resolved.file # NoFile => HasPdfExtension(resolved.file.path)

\* link resolution matched a file that is no PDF and the direct-path match
\* was returned
C17_Witness ==
    /\ resolved.called
    /\ host.linked.isTFile
    /\ ~IsPdfFile(host.linked)
    /\ resolved.file = host.abstract
    /\ resolved.file # NoFile

====
